---- MODULE Spec2Model ----
(***************************************************************************)
(* Model of bonfire's follow loop (src/bonfire/output.py, run_logprint)    *)
(* and of the part of the command line entry point that builds the first   *)
(* query (src/bonfire/cli.py, run).                                        *)
(*                                                                         *)
(* Time is counted in whole seconds.  The graylog_api module (SearchRange, *)
(* SearchQuery, the search call) and the formatters are modelled from the  *)
(* specification of their interfaces.                                      *)
(***************************************************************************)
EXTENDS Integers, Sequences, FiniteSets, TLC

\* ---------------------------------------------------------------- bounds
MaxTime == 2
MaxCycles == 2
MaxMsgs == 2

\* ------------------------------------------------------- input alphabets
Latencies == {0, 2}
Intervals == {1000, 2000}
Lags == {0, 1}
Limits == {0, 1}
SearchFroms == {2}
SearchTos == {1}
\* --sort with --asc/--desc
Orders == {<< {}, FALSE >>, << {"timestamp"}, FALSE >>, << {"timestamp"}, TRUE >>}

\* ----------------------------------------------------- optional values
None == {}
Some(x) == {x}
Get(o) == CHOOSE x \in o : TRUE

\* ------------------------------------------------------ sequence helpers
RECURSIVE SortDesc(_)
SortDesc(S) ==
    IF S = {} THEN << >>
    ELSE LET m == CHOOSE x \in S : \A y \in S : y <= x
         IN  << m >> \o SortDesc(S \ {m})

Reverse(s) == [i \in 1..Len(s) |-> s[Len(s) + 1 - i]]

Take(s, n) == IF n >= Len(s) THEN s ELSE SubSeq(s, 1, n)

VARIABLES
    now,            \* the wall clock, in seconds
    msgs,           \* timestamps of the messages that exist
    indexed,        \* the messages the backend can already find
    lag,            \* the backend's indexing delay, in seconds
    follow,         \* run_logprint's parameters
    interval,
    latency,
    query,          \* the query variable of run / run_logprint (None until built)
    pc,             \* position of the single thread of control
    exc,            \* the exception that left run_logprint, "" if none
    result,         \* result of the last search (None until one returned)
    formatted_msgs, \* the list built at output.py:30-32
    print_i,        \* number of entries of formatted_msgs already printed
    sleep_until,    \* end of the current time.sleep
    stdout,         \* lines written to standard output, with their cycle
    stderr,         \* lines written to standard error
    issued,         \* history: every query handed to api.search, with its time
    returned,       \* history: the result of the n-th search (None: none came back)
    derived_at,     \* history: clock reading of arrow.now() when the n-th query was built
    intr,           \* history: where each KeyboardInterrupt arrived
    given,          \* the invocation: the options of the command line and the
                    \* time zone of the node configuration
    host_tz         \* gl_api.host_tz

vars == << now, msgs, indexed, lag, follow, interval, latency, query, pc, exc,
           result, formatted_msgs, print_i, sleep_until, stdout, stderr,
           issued, returned, derived_at, intr, given, host_tz >>

env == << now, msgs, indexed, lag >>
params == << follow, interval, latency, given, host_tz >>
hist == << issued, returned, derived_at, intr >>

\* ------------------------------------------------ graylog_api (from spec)
Abs(t) == [rel |-> FALSE, v |-> t]
Rel(ago) == [rel |-> TRUE, v |-> ago]

SearchRange(from_time, to_time) == [from_time |-> from_time, to_time |-> to_time]

SearchQuery(search_range, q, limit, filter, fields, sort, ascending) ==
    [search_range |-> search_range, query |-> q, limit |-> limit,
     filter |-> filter, fields |-> fields, sort |-> sort, ascending |-> ascending]

copy_with_range(q, r) == [q EXCEPT !.search_range = r]

\* a relative bound is resolved when the range is handed to the backend
Resolve(tv, at) == IF tv.rel THEN at - tv.v ELSE tv.v
RangeFrom(q, at) == Resolve(q.search_range.from_time, at)
RangeTo(q, at) ==
    IF q.search_range.to_time = None THEN at
    ELSE Resolve(Get(q.search_range.to_time), at)

\* the instants up to which the backend may declare the result complete
RangeToChoices(q, at) ==
    IF RangeFrom(q, at) <= RangeTo(q, at)
    THEN RangeFrom(q, at) .. RangeTo(q, at)
    ELSE {RangeTo(q, at)}

InWindow(q, at) == {m \in indexed : RangeFrom(q, at) <= m /\ m < RangeTo(q, at)}

\* the batch: every record below range_to, any of those between range_to and
\* to, ordered as asked (newest first unless an ascending sort is set), cut
\* at the limit
Ordered(q, S) ==
    IF q.sort # None /\ q.ascending THEN Reverse(SortDesc(S)) ELSE SortDesc(S)

Batch(q, S) ==
    IF q.limit = None THEN Ordered(q, S) ELSE Take(Ordered(q, S), Get(q.limit))

SearchResult(q, at, rt, extra) ==
    [messages |-> Batch(q, {m \in InWindow(q, at) : m < rt} \cup extra),
     range_to |-> rt]

\* ----------------------------------------------------- formatter (spec)
formatter(m) == << "line", m >>

FormatAll(ms) == [i \in 1..Len(ms) |-> formatter(ms[i])]

\* ------------------------------------------------------ the invocation
Invocation(tz, search_from, search_to, limit, order, q, stream, fields, ms) ==
    [host_tz |-> tz, search_from |-> search_from, search_to |-> search_to,
     limit |-> limit, sort |-> order[1], asc |-> order[2], query |-> q,
     stream |-> stream, fields |-> fields, interval |-> ms]

\* nothing asked for: -n 0, no sort, an open range, no stream, the default
\* interval and the default time zone
PlainInvocation ==
    Invocation("utc", 2, None, 0, << {}, FALSE >>, "*", None, << "message" >>, 1000)

\* everything asked for: a limit, an ascending sort, a search-to, a stream,
\* two fields, an interval, and a time zone set in the node configuration
FullInvocation ==
    Invocation("Europe/Berlin", 2, Some(Rel(1)), 1, << {"timestamp"}, TRUE >>,
               "level:3", Some("s1"), << "message", "source" >>, 2000)

\* the plain and the full invocation in either mode; without follow, where
\* run() keeps the range, the limit and the sort, every combination of them
\* as well
Invocations(f) ==
    {PlainInvocation, FullInvocation} \cup
    IF f THEN {}
    ELSE {Invocation("Europe/Berlin", search_from, search_to, limit, order,
                     "*", None, << "message" >>, 1000) :
             search_from \in SearchFroms,
             search_to \in {None} \cup {Some(Rel(a)) : a \in SearchTos},
             limit \in Limits,
             order \in Orders}

\* ------------------------------------------------------------ the state
Init ==
    /\ now = 0
    /\ msgs = {}
    /\ indexed = {}
    /\ lag \in Lags
    /\ follow \in BOOLEAN
    \* interval and latency are read in follow mode only; the interval is
    \* that of the invocation
    /\ interval \in IF follow THEN Intervals ELSE {1000}
    /\ latency \in IF follow THEN Latencies ELSE {2}
    /\ given \in Invocations(follow)
    /\ interval = given.interval
    /\ host_tz = given.host_tz
    /\ query = None
    /\ pc = "tz"
    /\ exc = ""
    /\ result = None
    /\ formatted_msgs = << >>
    /\ print_i = 0
    /\ sleep_until = 0
    /\ stdout = << >>
    /\ stderr = << >>
    /\ issued = << >>
    /\ returned = << >>
    /\ derived_at = << >>
    /\ intr = << >>

\* the last search the bounds allow has been handled
Horizon == pc = "sleeping" /\ Len(issued) >= MaxCycles

\* the model's time runs from the moment run() builds the query until
\* nothing reads the clock or the backend any more
Running == pc \notin {"tz", "cli", "handler", "done", "raised"} /\ ~Horizon

\* ------------------------------------------------------ the environment
\* a second passes, unless the backend still has to index a message whose
\* delay is up
Tick ==
    /\ Running
    /\ now < MaxTime
    /\ \A m \in msgs \ indexed : now < m + lag
    /\ now' = now + 1
    /\ UNCHANGED << msgs, indexed, lag, params, query, pc, exc, result,
                    formatted_msgs, print_i, sleep_until, stdout, stderr, hist >>

\* some application logs a message stamped with the current time
Emit ==
    /\ Running
    /\ now \notin msgs
    /\ Cardinality(msgs) < MaxMsgs
    /\ msgs' = msgs \cup {now}
    /\ UNCHANGED << now, indexed, lag, params, query, pc, exc, result,
                    formatted_msgs, print_i, sleep_until, stdout, stderr, hist >>

\* the backend finishes indexing a message
Index ==
    /\ Running
    /\ \E m \in msgs \ indexed : indexed' = indexed \cup {m}
    /\ UNCHANGED << now, msgs, lag, params, query, pc, exc, result,
                    formatted_msgs, print_i, sleep_until, stdout, stderr, hist >>

\* ---------------------------------------------------- cli.py: run()
ServerTz == "Europe/Berlin"
TimezoneWarning == "Unable to retrieve timezone from server\nUsing default timezone: utc"

\* variant of the lookup: no handler around it
LookupCaught_None(e) == FALSE

\* cli.py:136: a bare except
LookupCaught(e) == TRUE

\* cli.py:133-135: with the default time zone the server is asked for its
\* own, and answers; otherwise nothing is asked
Timezone ==
    /\ pc = "tz"
    /\ host_tz' = IF host_tz = "utc" THEN ServerTz ELSE host_tz
    /\ pc' = "cli"
    /\ UNCHANGED << env, follow, interval, latency, given, query, exc, result,
                    formatted_msgs, print_i, sleep_until, stdout, stderr, hist >>

\* cli.py:133-138: the server is asked and the request fails
TimezoneFail ==
    /\ pc = "tz"
    /\ host_tz = "utc"
    /\ IF LookupCaught("TimezoneError")
       THEN /\ stderr' = Append(stderr, TimezoneWarning)
            /\ pc' = "cli"
            /\ exc' = exc
       ELSE /\ stderr' = stderr
            /\ pc' = "raised"
            /\ exc' = "TimezoneError"
    /\ UNCHANGED << env, params, query, result, formatted_msgs, print_i,
                    sleep_until, stdout, hist >>

\* cli.py:168-179: the base range, the limit, and in follow mode the start
\* of the window
\* variant: the first window ends at the current time
FollowTo_Now(t) == t
\* variant: the first window starts a second after its end
FollowFrom_After(t) == t - latency + 1

FollowFrom(t) == t - latency - 1
FollowTo(t) == t - latency

\* cli.py:172-173
Limit(n) == IF n <= 0 THEN None ELSE Some(n)
\* variants of the follow overrides: the sort and the search-to of the
\* command line are kept
FollowSort_Kept(sort) == sort
FollowRangeTo_Kept(to_time, t) == to_time

\* cli.py:176-178
FollowLimit(limit) == IF follow THEN None ELSE limit
FollowSort(sort) == IF follow THEN None ELSE sort
\* cli.py:180
FollowRangeTo(to_time, t) == IF follow THEN Some(Abs(FollowTo(t))) ELSE to_time
\* cli.py:194
StreamFilter(stream) ==
    IF stream = None THEN None ELSE Some(<< "streams:", Get(stream) >>)

BuildQuery ==
    /\ pc = "cli"
    /\ LET sr == SearchRange(Rel(given.search_from), given.search_to)
       IN  query' = Some(SearchQuery(
               IF follow THEN [sr EXCEPT !.from_time = Abs(FollowFrom(now))] ELSE sr,
               given.query,
               FollowLimit(Limit(given.limit)),
               StreamFilter(given.stream),
               given.fields,
               FollowSort(given.sort),
               given.asc))
    /\ pc' = "cli_to"
    /\ UNCHANGED << env, params, exc, result, formatted_msgs, print_i,
                    sleep_until, stdout, stderr, hist >>

\* cli.py:180 and 197: the end of the window in follow mode, read from the
\* clock a second time
BuildQueryTo ==
    /\ pc = "cli_to"
    /\ query' = Some([Get(query) EXCEPT !.search_range.to_time = FollowRangeTo(@, now)])
    /\ derived_at' = << now >>
    /\ pc' = "call"
    /\ UNCHANGED << env, params, exc, result, formatted_msgs, print_i,
                    sleep_until, stdout, stderr, issued, returned, intr >>

\* ------------------------------------------- output.py: run_logprint()
\* variants of the handler: a bare except, and one for another exception
Caught_Any(e) == TRUE
Caught_Other(e) == e = "SystemExit"

\* output.py:25: the follow loop's handler catches KeyboardInterrupt only
Caught(e) == e = "KeyboardInterrupt"

\* an exception raised at the current position: inside the try block of the
\* follow loop (output.py:17-24) it reaches the handler if caught, otherwise
\* it leaves run_logprint
\* variants of the try block: around the sleep only, and around the body
\* of run_logprint in both modes
InTry_SleepOnly == follow /\ pc = "sleeping"
InTry_BothModes == pc \in {"searching", "printing", "sleeping"}

InTry == follow /\ pc \in {"searching", "printing", "sleeping"}

Raise(e) ==
    IF InTry /\ Caught(e)
    THEN pc' = "handler" /\ exc' = exc
    ELSE pc' = "raised" /\ exc' = e

\* output.py:29: the query goes to api.search
Issue ==
    /\ issued' = Append(issued, [q |-> Get(query), at |-> now])
    /\ returned' = Append(returned, None)
    /\ pc' = "searching"

\* cli.py:208, output.py:13-19 and 28-29: run_logprint is entered and
\* reaches its first search
Enter ==
    /\ pc = "call"
    /\ IF follow /\ Get(query).limit # None
       THEN /\ pc' = "raised"
            /\ exc' = "AssertionError"
            /\ UNCHANGED << issued, returned >>
       ELSE Issue /\ exc' = exc
    /\ UNCHANGED << env, params, query, result, formatted_msgs, print_i,
                    sleep_until, stdout, stderr, derived_at, intr >>

\* variant: the batch is printed in the order delivered
Chronological_AsDelivered(lines) == lines

\* output.py:32
Chronological(lines) == Reverse(lines)

\* output.py:29-32: api.search returns, the batch is formatted and reversed
SearchReturn ==
    /\ pc = "searching"
    /\ LET q == Get(query)
           at == issued[Len(issued)].at
       IN  \E rt \in RangeToChoices(q, at) :
           \E extra \in SUBSET {m \in InWindow(q, at) : m >= rt} :
              /\ result' = Some(SearchResult(q, at, rt, extra))
              /\ returned' = [returned EXCEPT ![Len(returned)] = result']
    /\ formatted_msgs' = Chronological(FormatAll(Get(result').messages))
    /\ print_i' = 0
    /\ pc' = "printing"
    /\ UNCHANGED << env, params, query, exc, sleep_until, stdout, stderr,
                    issued, derived_at, intr >>

\* variant of the formatting: lazy, each record formatted when its line is
\* due, so that the lines before the failing record are out already
PrintedBeforeFailure_Lazy(done) == done

\* output.py:30-35: the list of formatted lines is built to its end before
\* the printing loop starts; done are the lines formatted before the
\* formatter raised
PrintedBeforeFailure(done) == << >>

\* output.py:29-30: api.search returns and the formatter raises on the k-th
\* record of the batch
FormatFail ==
    /\ pc = "searching"
    /\ LET q == Get(query)
           at == issued[Len(issued)].at
       IN  \E rt \in RangeToChoices(q, at) :
           \E extra \in SUBSET {m \in InWindow(q, at) : m >= rt} :
              LET res == SearchResult(q, at, rt, extra)
              IN  /\ result' = Some(res)
                  /\ returned' = [returned EXCEPT ![Len(returned)] = result']
                  /\ \E k \in 1..Len(res.messages) :
                        LET out == PrintedBeforeFailure(FormatAll(SubSeq(res.messages, 1, k - 1)))
                        IN  stdout' = stdout \o
                                [i \in 1..Len(out) |-> [line |-> out[i], cycle |-> Len(issued)]]
    /\ Raise("FormatError")
    /\ UNCHANGED << env, params, query, formatted_msgs, print_i, sleep_until,
                    stderr, issued, derived_at, intr >>

\* output.py:29: api.search fails
SearchFail ==
    /\ pc = "searching"
    /\ Raise("SearchError")
    /\ UNCHANGED << env, params, query, result, formatted_msgs, print_i,
                    sleep_until, stdout, stderr, hist >>

\* output.py:34-35: one turn of the printing loop
PrintLine ==
    /\ pc = "printing"
    /\ print_i < Len(formatted_msgs)
    /\ stdout' = Append(stdout, [line |-> formatted_msgs[print_i + 1],
                                 cycle |-> Len(issued)])
    /\ print_i' = print_i + 1
    /\ UNCHANGED << env, params, query, pc, exc, result, formatted_msgs,
                    sleep_until, stderr, hist >>

\* output.py:37: without follow, run_logprint returns the result
Return ==
    /\ pc = "printing"
    /\ ~follow
    /\ print_i = Len(formatted_msgs)
    /\ pc' = "done"
    /\ UNCHANGED << env, params, query, exc, result, formatted_msgs, print_i,
                    sleep_until, stdout, stderr, hist >>

\* variants of the range derivation: the requested end instead of the
\* effective one, the start of the window kept, the latency margin dropped
NextFrom_RequestedTo(res, q) == Get(q.search_range.to_time).v
NextFrom_Kept(res, q) == q.search_range.from_time.v
NextTo_Now(t) == t

\* variant of the next query: built anew from the search string, without
\* the other attributes
NextQuery_Rebuilt(q, r) == SearchQuery(r, q.query, None, None, << >>, None, FALSE)

\* output.py:20-22
NextFrom(res, q) == res.range_to
NextTo(t) == t - latency
NextQuery(q, r) == copy_with_range(q, r)
\* variant of the sleep: the interval taken as microseconds
SleepSeconds_Micro == interval \div 1000000

\* output.py:24
SleepSeconds == interval \div 1000

\* variant of the loop: left when a batch is empty
Derive_StopOnEmpty ==
    /\ pc = "printing"
    /\ follow
    /\ print_i = Len(formatted_msgs)
    /\ IF formatted_msgs = << >>
       THEN /\ pc' = "done"
            /\ UNCHANGED << query, derived_at, sleep_until >>
       ELSE /\ LET new_range == SearchRange(Abs(NextFrom(Get(result), Get(query))),
                                            Some(Abs(NextTo(now))))
               IN  query' = Some(NextQuery(Get(query), new_range))
            /\ derived_at' = Append(derived_at, now)
            /\ sleep_until' = now + SleepSeconds
            /\ pc' = "sleeping"
    /\ UNCHANGED << env, params, exc, result, formatted_msgs, print_i,
                    stdout, stderr, issued, returned, intr >>

\* variant of the loop: entered whether follow is set or not
Derive_EitherMode ==
    /\ pc = "printing"
    /\ print_i = Len(formatted_msgs)
    /\ LET new_range == SearchRange(Abs(NextFrom(Get(result), Get(query))),
                                    Some(Abs(NextTo(now))))
       IN  query' = Some(NextQuery(Get(query), new_range))
    /\ derived_at' = Append(derived_at, now)
    /\ sleep_until' = now + SleepSeconds
    /\ pc' = "sleeping"
    /\ UNCHANGED << env, params, exc, result, formatted_msgs, print_i,
                    stdout, stderr, issued, returned, intr >>

\* output.py:37 and 19-24: the inner call returns, the next query is
\* derived and the sleep begins
Derive ==
    /\ pc = "printing"
    /\ follow
    /\ print_i = Len(formatted_msgs)
    /\ LET new_range == SearchRange(Abs(NextFrom(Get(result), Get(query))),
                                    Some(Abs(NextTo(now))))
       IN  query' = Some(NextQuery(Get(query), new_range))
    /\ derived_at' = Append(derived_at, now)
    /\ sleep_until' = now + SleepSeconds
    /\ pc' = "sleeping"
    /\ UNCHANGED << env, params, exc, result, formatted_msgs, print_i,
                    stdout, stderr, issued, returned, intr >>

\* output.py:24, 18-19 and 29: the sleep ends, the loop goes round and the
\* next search is issued
Wake ==
    /\ pc = "sleeping"
    /\ now >= sleep_until
    /\ Len(issued) < MaxCycles
    /\ Issue
    /\ UNCHANGED << env, params, query, exc, result, formatted_msgs, print_i,
                    sleep_until, stdout, stderr, derived_at, intr >>

\* the user presses Ctrl-C: KeyboardInterrupt is raised wherever
\* run_logprint currently is
Interrupt ==
    /\ pc \in {"searching", "printing", "sleeping", "handler"}
    /\ intr' = Append(intr, [pc |-> pc, n_out |-> Len(stdout), n_issued |-> Len(issued)])
    /\ Raise("KeyboardInterrupt")
    /\ UNCHANGED << env, params, query, result, formatted_msgs, print_i,
                    sleep_until, stdout, stderr, issued, returned, derived_at >>

\* variant: the handler is silent
NoticeText_Silent == << >>

\* output.py:26
NoticeText == << "\nInterrupted follow mode. Exiting..." >>

Notice ==
    /\ pc = "handler"
    /\ stderr' = stderr \o NoticeText
    /\ pc' = "done"
    /\ UNCHANGED << env, params, query, exc, result, formatted_msgs, print_i,
                    sleep_until, stdout, hist >>

Step ==
    \/ Timezone
    \/ TimezoneFail
    \/ BuildQuery
    \/ BuildQueryTo
    \/ Enter
    \/ SearchReturn
    \/ PrintLine
    \/ Return
    \/ Derive
    \/ Wake
    \/ Notice

Next ==
    \/ Tick
    \/ Emit
    \/ Index
    \/ Step
    \/ SearchFail
    \/ FormatFail
    \/ Interrupt

Spec == Init /\ [][Next]_vars

\* =================================================== properties
\* the window of the i-th search, and its result
IssuedFrom(i) == RangeFrom(issued[i].q, issued[i].at)
IssuedTo(i) == RangeTo(issued[i].q, issued[i].at)
Came(i) == returned[i] # None
Messages(i) == Get(returned[i]).messages
EffectiveTo(i) == Get(returned[i]).range_to

\* the lines the i-th cycle has written, and the records they show
RECURSIVE LinesOf(_, _)
LinesOf(out, i) ==
    IF out = << >> THEN << >>
    ELSE IF Head(out).cycle = i
         THEN << Head(out).line >> \o LinesOf(Tail(out), i)
         ELSE LinesOf(Tail(out), i)
Shown(line) == line[2]
Printed(m) == \E k \in DOMAIN stdout : Shown(stdout[k].line) = m

IsPrefix(s, t) == Len(s) <= Len(t) /\ \A k \in 1..Len(s) : s[k] = t[k]
NonIncreasing(s) == \A k \in 1..(Len(s) - 1) : s[k] >= s[k + 1]
LinesNonDecreasing(s) == \A k \in 1..(Len(s) - 1) : Shown(s[k]) <= Shown(s[k + 1])

\* the i-th batch has been printed to its end
PrintedOut(i) ==
    \/ i < Len(issued)
    \/ i = Len(issued) /\ (pc = "sleeping" \/ (~follow /\ pc = "done"))

\* the notices of the follow loop on standard error
IsNotice(l) == l = "\nInterrupted follow mode. Exiting..."
Notices == SelectSeq(stderr, IsNotice)

\* an interruption arrived at position p
InterruptedAt(p) == intr # << >> /\ intr[1].pc = p

\* the last search came to an end without a result and without an interruption
SearchFailed ==
    /\ issued # << >>
    /\ ~Came(Len(issued))
    /\ pc # "searching"
    /\ ~InterruptedAt("searching")

\* the single thread of control keeps running, the clock keeps going and the
\* backend keeps indexing
FairSpec == Spec /\ WF_vars(Step) /\ WF_vars(Tick) /\ WF_vars(Index)

\* the backend of the claim: a message is searchable at the latest when
\* latency has passed since its timestamp
TimelyBackend == lag <= latency

\* message m is at or after the start of the first window of a follow run
Awaited(m) == follow /\ issued # << >> /\ m \in msgs /\ m >= IssuedFrom(1)

\* the bounds of the model have halted the loop
BoundsReached ==
    \/ Horizon
    \/ pc = "sleeping" /\ now = MaxTime /\ sleep_until > MaxTime

\* the window has not moved past an awaited message that was never printed
NotSkipped ==
    \A m \in msgs : Awaited(m) => Printed(m) \/ m >= RangeFrom(Get(query), now)

\* C1: with a backend that makes every message searchable within latency of
\* its timestamp and returns every searchable message below range_to, the
\* window of a follow run never moves past a message at or after the first
\* window's start that has not been printed, and every such message is
\* printed in the end unless the run is interrupted, fails, or is halted by
\* the bounds of the model.
C1_NoSilentSkip ==
    /\ [](TimelyBackend => NotSkipped)
    /\ \A m \in 0..MaxTime :
          (TimelyBackend /\ Awaited(m))
             ~> (Printed(m) \/ intr # << >> \/ pc = "raised" \/ BoundsReached)

\* a message stamped after the first search was issued has been printed, for
\* the first time, by the second cycle
C1_Witness ==
    /\ follow
    /\ TimelyBackend
    /\ Len(issued) = 2
    /\ \E k \in DOMAIN stdout :
          /\ stdout[k].cycle = 2
          /\ Shown(stdout[k].line) >= issued[1].at
          /\ \A j \in 1..(k - 1) : stdout[j].line # stdout[k].line

\* C2: in follow mode the query of cycle N+1 starts exactly at the range_to
\* that the search of cycle N returned, whether or not its batch was empty.
C2_NoGapAdvance ==
    follow =>
        \A i \in 1..(Len(issued) - 1) :
            /\ Came(i)
            /\ issued[i + 1].q.search_range.from_time = Abs(EffectiveTo(i))

\* two cycles, the first with an empty batch and an effective end before
\* the requested one
C2_Witness ==
    /\ follow
    /\ Len(issued) >= 2
    /\ Messages(1) = << >>
    /\ EffectiveTo(1) < IssuedTo(1)
    /\ IssuedFrom(2) = EffectiveTo(1)

\* C3: in follow mode no record with a timestamp below the range_to of an
\* earlier cycle is printed in a later cycle (so none is printed again).
C3_NoDuplicate ==
    follow =>
        \A k \in DOMAIN stdout :
            \A c \in 1..(stdout[k].cycle - 1) :
                Shown(stdout[k].line) >= EffectiveTo(c)

\* a record at or above the earlier range_to is printed in two cycles
C3_Witness ==
    /\ follow
    /\ \E j, k \in DOMAIN stdout :
          /\ stdout[j].cycle < stdout[k].cycle
          /\ stdout[j].line = stdout[k].line
          /\ Shown(stdout[k].line) >= EffectiveTo(stdout[j].cycle)
    /\ \E k \in DOMAIN stdout :
          stdout[k].cycle > 1 /\ Shown(stdout[k].line) > EffectiveTo(1)

\* C4: the lines a batch puts on standard output are the formatter applied
\* to each record, one line per record, in the reverse of the delivered
\* order; a batch delivered newest first is printed oldest first; an empty
\* batch prints nothing, and after it only an interruption ends the call with
\* an exception.
C4_ChronologicalOutput ==
    /\ \A i \in DOMAIN issued :
          /\ Came(i) =>
                /\ IsPrefix(LinesOf(stdout, i), Reverse(FormatAll(Messages(i))))
                /\ PrintedOut(i) => LinesOf(stdout, i) = Reverse(FormatAll(Messages(i)))
                /\ NonIncreasing(Messages(i)) => LinesNonDecreasing(LinesOf(stdout, i))
          /\ ~Came(i) => LinesOf(stdout, i) = << >>
    /\ pc = "raised" /\ issued # << >> /\ Came(Len(issued)) /\ Messages(Len(issued)) = << >>
          => exc = "KeyboardInterrupt"

\* a batch of two records has been printed to its end
C4_Witness ==
    \E i \in DOMAIN issued :
        /\ Came(i)
        /\ PrintedOut(i)
        /\ Len(Messages(i)) >= 2
        /\ Len(LinesOf(stdout, i)) = Len(Messages(i))

\* C5: in follow mode the upper bound of every query handed to the search
\* is at most the time of issuing minus latency.
C5_LatencyMargin ==
    follow => \A i \in DOMAIN issued : IssuedTo(i) <= issued[i].at - latency

\* a first and a derived query have been issued with a positive latency
C5_Witness ==
    /\ follow
    /\ latency > 0
    /\ Len(issued) >= 2
    /\ IssuedTo(1) = issued[1].at - latency

\* C6 as stated: from the second cycle on, the upper bound of the query is
\* the time at which that cycle's search is issued minus latency.
C6_ToAtIssuance ==
    follow => \A i \in 2..Len(issued) : IssuedTo(i) = issued[i].at - latency

\* C6 as the code has it: from the second cycle on, the upper bound is the
\* time at which the query was derived, at the end of the previous cycle and
\* before the sleep, minus latency; the search is issued at least the
\* interval later.
C6_ToAtDerivation ==
    follow =>
        /\ Len(derived_at) \in {Len(issued), Len(issued) + 1}
        /\ \A i \in 2..Len(issued) :
              /\ IssuedTo(i) = derived_at[i] - latency
              /\ issued[i].at >= derived_at[i] + SleepSeconds
              /\ IssuedTo(i) <= issued[i].at - SleepSeconds - latency

\* a second search is issued later than its query was derived
C6_Witness ==
    /\ follow
    /\ Len(issued) >= 2
    /\ issued[2].at > derived_at[2]
    /\ IssuedTo(2) = derived_at[2] - latency

\* C7 as stated: an interruption that arrives while a search is in flight
\* or a batch is being printed lets that search return and that batch be
\* printed to its end.
C7_CycleCompleted ==
    follow /\ (InterruptedAt("searching") \/ InterruptedAt("printing")) =>
        /\ Came(intr[1].n_issued)
        /\ LinesOf(stdout, intr[1].n_issued)
              = Reverse(FormatAll(Messages(intr[1].n_issued)))

\* C7 as the code has it: such an interruption ends the cycle where it is:
\* the search in flight never returns, nothing more of the batch is printed
\* (what was printed is the oldest part of the batch), no other search is
\* issued, and the handler takes over; the exception leaves run_logprint
\* only if a second interruption hits the handler.
C7_CycleAbandoned ==
    follow /\ (InterruptedAt("searching") \/ InterruptedAt("printing")) =>
        LET n == intr[1].n_issued
        IN  /\ pc \in {"handler", "done", "raised"}
            /\ pc = "raised" => Len(intr) = 2 /\ intr[2].pc = "handler"
            /\ Len(issued) = n
            /\ Len(stdout) = intr[1].n_out
            /\ InterruptedAt("searching") => ~Came(n) /\ LinesOf(stdout, n) = << >>
            /\ InterruptedAt("printing") =>
                  IsPrefix(LinesOf(stdout, n), Reverse(FormatAll(Messages(n))))

\* the loop has ended after an interruption that cut a batch in two
C7_Witness ==
    /\ follow
    /\ InterruptedAt("printing")
    /\ pc = "done"
    /\ LinesOf(stdout, Len(issued)) # << >>
    /\ Len(LinesOf(stdout, Len(issued))) < Len(Messages(Len(issued)))

\* C8: an interruption that arrives during the sleep is followed by no
\* search and no line on standard output, and run_logprint returns with
\* exactly one notice on standard error.
C8_InterruptedWait ==
    follow /\ InterruptedAt("sleeping") =>
        /\ Len(issued) = intr[1].n_issued
        /\ Len(stdout) = intr[1].n_out
        /\ pc \in {"handler", "done", "raised"}
        /\ pc = "handler" => Notices = << >>
        /\ pc = "done" => Len(Notices) = 1
        /\ pc = "raised" => Len(intr) = 2 /\ intr[2].pc = "handler"

\* run_logprint has returned after an interruption of the second sleep
C8_Witness ==
    /\ follow
    /\ InterruptedAt("sleeping")
    /\ intr[1].n_issued = 2
    /\ pc = "done"
    /\ Len(Notices) = 1

\* C9 as stated: wherever the interruption arrives, with or without follow,
\* run_logprint does not pass it on to its caller.
C9_NeverPropagated ==
    Len(intr) = 1 => pc # "raised"

\* C9 as the code has it: in follow mode an interruption while searching,
\* printing or waiting is caught, the notice is written and run_logprint
\* returns, the exception leaving it only if a second interruption hits the
\* handler before the notice; without follow the interruption always leaves
\* run_logprint as KeyboardInterrupt.
C9_CaughtInFollowOnly ==
    /\ follow /\ intr # << >> =>
          /\ intr[1].pc \in {"searching", "printing", "sleeping"}
          /\ pc \in {"handler", "done", "raised"}
          /\ pc = "done" => exc = "" /\ Len(Notices) = 1
          /\ pc = "raised" =>
                exc = "KeyboardInterrupt" /\ Len(intr) = 2 /\ intr[2].pc = "handler"
    /\ ~follow /\ intr # << >> =>
          /\ pc = "raised"
          /\ exc = "KeyboardInterrupt"
          /\ Notices = << >>

\* a follow run interrupted during a search has returned normally
C9_Witness ==
    /\ follow
    /\ InterruptedAt("searching")
    /\ Len(issued) >= 2
    /\ pc = "done"
    /\ exc = ""

\* C10: a failed search in follow mode leaves run_logprint as an exception:
\* nothing of that cycle is printed, no later search is issued, no query is
\* derived, no sleep begins and no notice is written.
C10_FailureFatal ==
    follow /\ SearchFailed =>
        /\ pc = "raised"
        /\ exc = "SearchError"
        /\ LinesOf(stdout, Len(issued)) = << >>
        /\ Len(derived_at) = Len(issued)
        /\ Notices = << >>
        /\ intr = << >>

\* the second search of a follow run has failed
C10_Witness ==
    /\ follow
    /\ SearchFailed
    /\ Len(issued) = 2
    /\ pc = "raised"

\* C11: every query a follow run hands to the search has no limit and no
\* sort field, in the first cycle and in every derived one, whatever limit
\* and sort the command line gave; the same holds of the query the run is
\* about to hand over.
C11_FollowUnlimitedUnsorted ==
    follow =>
        /\ \A i \in 1..Len(issued) :
              issued[i].q.limit = None /\ issued[i].q.sort = None
        /\ pc \in {"call", "searching", "printing", "sleeping"} =>
              Get(query).limit = None /\ Get(query).sort = None
        /\ exc # "AssertionError"

\* a follow run started with a limit and a sort has issued a derived query
C11_Witness ==
    /\ follow
    /\ Limit(given.limit) # None
    /\ given.sort # None
    /\ Len(issued) = 2
    /\ pc = "searching"

\* C12: every query a follow run hands to the search has an explicit end of
\* its window, whether the command line gave a search-to or not, in the
\* first cycle and in every derived one.
C12_FollowToSet ==
    follow =>
        /\ \A i \in 1..Len(issued) : issued[i].q.search_range.to_time # None
        /\ pc \in {"call", "searching", "printing", "sleeping"} =>
              Get(query).search_range.to_time # None

\* a follow run started without a search-to has issued its first query and
\* a derived one
C12_Witness ==
    /\ follow
    /\ given.search_to = None
    /\ Len(issued) = 2
    /\ pc = "searching"

\* the attributes of a query other than its range
Frame(q) == << q.query, q.filter, q.fields, q.limit, q.sort, q.ascending >>

\* C13: all queries of one follow run have the same search string, stream
\* filter, field list, limit, sort field and sort direction, those the run
\* was started with; a query has no attribute besides these and its range,
\* and the range of a derived query is made of the range_to of the previous
\* result and of the clock reading less the latency, nothing else of the
\* previous cycle.
C13_OnlyRangeChanges ==
    follow =>
        /\ \A i \in 1..Len(issued) :
              /\ Frame(issued[i].q) =
                    << given.query, StreamFilter(given.stream), given.fields,
                       None, None, given.asc >>
              /\ DOMAIN issued[i].q =
                    {"search_range", "query", "filter", "fields", "limit",
                     "sort", "ascending"}
        /\ \A i \in 2..Len(issued) :
              issued[i].q.search_range =
                  SearchRange(Abs(Get(returned[i-1]).range_to),
                              Some(Abs(derived_at[i] - latency)))
        /\ pc = "sleeping" => Frame(Get(query)) = Frame(issued[Len(issued)].q)

\* a follow run started with a stream, two fields and an ascending order has
\* issued a derived query whose range differs from the first one's
C13_Witness ==
    /\ follow
    /\ given = FullInvocation
    /\ Len(issued) = 2
    /\ issued[2].q.search_range # issued[1].q.search_range
    /\ issued[2].q.filter # None

\* C14: the cycles of a follow run follow one another: only the last search
\* issued can be without its result; when the next search is issued, the
\* previous one has returned and its batch stands printed to its end, before
\* any line of a later cycle; and between the end of one cycle's printing
\* and the next search lie one derivation of the range and one sleep of the
\* interval, in this order.
C14_SequentialCycles ==
    follow =>
        /\ \A i \in 1..(Len(issued) - 1) :
              /\ Came(i)
              /\ LinesOf(stdout, i) = Reverse(FormatAll(Messages(i)))
        /\ \A k \in 1..(Len(stdout) - 1) : stdout[k].cycle <= stdout[k + 1].cycle
        /\ Len(derived_at) \in {Len(issued), Len(issued) + 1}
        /\ \A i \in 2..Len(issued) :
              /\ issued[i - 1].at <= derived_at[i]
              /\ derived_at[i] + interval \div 1000 <= issued[i].at
        /\ pc \in {"searching", "printing"} => Len(derived_at) = Len(issued)
        /\ pc = "sleeping" =>
              /\ Len(derived_at) = Len(issued) + 1
              /\ sleep_until = derived_at[Len(derived_at)] + interval \div 1000
              /\ Came(Len(issued))
              /\ LinesOf(stdout, Len(issued)) = Reverse(FormatAll(Messages(Len(issued))))

\* the second search of a follow run is in flight after a first cycle that
\* printed a record
C14_Witness ==
    /\ follow
    /\ Len(issued) = 2
    /\ pc = "searching"
    /\ Len(LinesOf(stdout, 1)) >= 1
    /\ issued[2].at >= derived_at[2] + interval \div 1000

\* the query run() builds from the command line without follow
GivenQuery ==
    SearchQuery(SearchRange(Rel(given.search_from), given.search_to),
                given.query, Limit(given.limit), StreamFilter(given.stream),
                given.fields, given.sort, given.asc)

\* C15: without follow, run_logprint issues at most one search, for the
\* query it was given, unchanged; it derives no range, never sleeps and
\* never goes round; when it has returned, that search's batch stands
\* printed and its result is the value returned.
C15_SingleShot ==
    ~follow =>
        /\ Len(issued) <= 1
        /\ \A i \in 1..Len(issued) :
              issued[i].q = GivenQuery /\ query = Some(GivenQuery)
        /\ pc # "sleeping"
        /\ sleep_until = 0
        /\ Len(derived_at) <= 1
        /\ pc = "done" =>
              /\ exc = ""
              /\ Len(issued) = 1
              /\ Came(1)
              /\ result = returned[1]
              /\ LinesOf(stdout, 1) = Reverse(FormatAll(Messages(1)))
              /\ Len(stdout) = Len(Messages(1))

\* a single-shot run has returned after printing two records
C15_Witness ==
    /\ ~follow
    /\ pc = "done"
    /\ Len(stdout) = 2
    /\ result = returned[1]

\* the n-th search of a follow run has been issued
Cycle(n) == follow /\ Len(issued) = n

\* C16: a follow run returns only after an interruption, and having
\* written its notice; and while no interruption arrives and no search
\* fails, every cycle is followed by another search, whether its batch was
\* empty or not, until the bounds of the model halt the loop.
C16_StopsOnlyOnInterrupt ==
    /\ [](follow /\ pc = "done" => intr # << >> /\ Len(Notices) = 1)
    /\ [](follow /\ intr = << >> /\ pc \notin {"tz", "cli", "cli_to", "call"} =>
             pc \in {"searching", "printing", "sleeping", "raised"})
    /\ \A n \in 1..MaxCycles :
          Cycle(n) ~> \/ Len(issued) > n
                      \/ intr # << >>
                      \/ pc = "raised"
                      \/ BoundsReached

\* a follow run has issued a second search after a first cycle whose batch
\* was empty, without any interruption
C16_Witness ==
    /\ follow
    /\ intr = << >>
    /\ Len(issued) = 2
    /\ Messages(1) = << >>
    /\ pc = "searching"

\* the warning of the time zone lookup stands on standard error
Warned == \E k \in DOMAIN stderr : stderr[k] = TimezoneWarning

\* C17: a failed lookup of the server's time zone never ends the run: no
\* exception of the lookup leaves run(); once the lookup is over, a run
\* configured with the default 'utc' has either the server's time zone and
\* no warning, or still 'utc' and the warning as the first line on standard
\* error; a run configured with another time zone keeps it, unwarned; and a
\* warned run comes to its end only after handing its query to the search.
C17_LookupFailureSurvived ==
    /\ exc # "TimezoneError"
    /\ pc # "tz" /\ given.host_tz = "utc" =>
          \/ host_tz = "utc" /\ Warned /\ Head(stderr) = TimezoneWarning
          \/ host_tz = ServerTz /\ ~Warned
    /\ pc # "tz" /\ given.host_tz # "utc" => host_tz = given.host_tz /\ ~Warned
    /\ pc = "tz" => host_tz = given.host_tz /\ ~Warned
    /\ Warned /\ pc \in {"handler", "done", "raised"} => issued # << >>

\* after a failed lookup a single-shot run has printed a record and
\* returned, still in the default time zone
C17_Witness ==
    /\ ~follow
    /\ Warned
    /\ host_tz = "utc"
    /\ pc = "done"
    /\ Len(stdout) >= 1

C19_FormatAllOrNothing ==
    /\ exc = "FormatError" =>
          /\ pc = "raised"
          /\ Came(Len(issued))
          /\ Messages(Len(issued)) # << >>
          /\ LinesOf(stdout, Len(issued)) = << >>
          /\ Notices = << >>
          /\ Len(derived_at) = Len(issued)
    /\ pc = "printing" => Len(formatted_msgs) = Len(Messages(Len(issued)))
    /\ \A i \in 1..Len(issued) : LinesOf(stdout, i) # << >> => exc # "FormatError" \/ i < Len(issued)

\* the formatter has failed on the second batch of a follow run, after the
\* first batch was printed
C19_Witness ==
    /\ follow
    /\ exc = "FormatError"
    /\ Len(issued) = 2
    /\ Len(LinesOf(stdout, 1)) = 1
    /\ Len(Messages(2)) = 1
    /\ pc = "raised"

====
